---- MODULE Spec2Model ----
(***************************************************************************)
(* Income ledger (record-keeping-python): the SQLite record store of       *)
(* app/database.py, the form that writes to it (app/ui/income_form.py)     *)
(* and the statistics and forecast queries that read it.                   *)
(*                                                                         *)
(* Conventions of the model                                                *)
(*  - A Python datetime is a record [year, month, day, hour, minute,       *)
(*    second, microsecond, tz]; tz is "naive" or "+08:00" (BEIJING_TZ).    *)
(*  - A TEXT value of the database is the sequence of the character codes  *)
(*    of the string (ASCII), so that SQLite's text comparison (memcmp) and *)
(*    its date functions are computed on what is really stored.            *)
(*  - datetime.now() is the naive wall clock of a machine whose zone is    *)
(*    UTC+8, the zone the application is written for.                      *)
(*  - Amounts are whole currency units; a float is an exact rational       *)
(*    [n, d] (rounding of binary floating point is not modelled).          *)
(***************************************************************************)
EXTENDS Integers, Sequences, FiniteSets, TLC

VARIABLES records, seq, settings, now, reachable, call, workers, stack, ret

vars == <<records, seq, settings, now, reachable, call, workers, stack, ret>>

(***************************************************************************)
(* Bounds of the model.                                                    *)
(***************************************************************************)
\* number of rows ever inserted (the AUTOINCREMENT counter is capped here)
MaxSeq == 2
\* largest window, in days, asked of get_daily_trend
MaxTrendDays == 2

Years == 2023..2025

(***************************************************************************)
(* Calendar arithmetic of Python's datetime (proleptic Gregorian).         *)
(***************************************************************************)
IsLeap(y) == (y % 4 = 0) /\ ((y % 100 # 0) \/ (y % 400 = 0))

DaysInMonth(y, m) ==
    IF m = 2 /\ IsLeap(y) THEN 29
    ELSE <<31, 28, 31, 30, 31, 30, 31, 31, 30, 31, 30, 31>>[m]

DaysBeforeYear(y) ==
    LET p == y - 1 IN p * 365 + (p \div 4) - (p \div 100) + (p \div 400)

\* days of the year before the first day of month m
DaysBeforeMonth(y, m) ==
    <<0, 31, 59, 90, 120, 151, 181, 212, 243, 273, 304, 334>>[m]
    + (IF m > 2 /\ IsLeap(y) THEN 1 ELSE 0)

\* date.toordinal()
ToOrdinal(y, m, d) == DaysBeforeYear(y) + DaysBeforeMonth(y, m) + d

\* date.fromordinal(n), for ordinals of the years of the model
FromOrdinal(n) ==
    LET y == CHOOSE yy \in (2022..2026) :
                 DaysBeforeYear(yy) < n /\ n <= DaysBeforeYear(yy + 1)
        r == n - DaysBeforeYear(y)
        m == CHOOSE mm \in 1..12 :
                 DaysBeforeMonth(y, mm) < r
                 /\ r <= DaysBeforeMonth(y, mm) + DaysInMonth(y, mm)
    IN [year |-> y, month |-> m, day |-> r - DaysBeforeMonth(y, m)]

\* a datetime value
DateTime(y, m, d, hh, mi, ss, us, tz) ==
    [year |-> y, month |-> m, day |-> d, hour |-> hh, minute |-> mi,
     second |-> ss, microsecond |-> us, tz |-> tz]

\* dt + timedelta(days = n): the date moves, the time of day and zone stay
PlusDays(dt, n) ==
    LET p == FromOrdinal(ToOrdinal(dt.year, dt.month, dt.day) + n)
    IN [dt EXCEPT !.year = p.year, !.month = p.month, !.day = p.day]

\* the fields of a datetime as a tuple, most significant first
WallClock(dt) ==
    <<dt.year, dt.month, dt.day, dt.hour, dt.minute, dt.second, dt.microsecond>>

\* lexicographic <= of two sequences of numbers; a proper prefix is smaller
LexLE(a, b) ==
    LET diff == {i \in 1..Len(a) : i > Len(b) \/ a[i] # b[i]}
    IN IF diff = {} THEN TRUE
       ELSE LET i == CHOOSE j \in diff : \A k \in diff : j <= k
            IN i <= Len(b) /\ a[i] < b[i]

\* Python's <= of two datetimes of the same kind
DtLE(a, b) == LexLE(WallClock(a), WallClock(b))

(***************************************************************************)
(* Text: strings as sequences of character codes.                          *)
(***************************************************************************)
Digit(n) == 48 + n
Pad2(n) == <<Digit(n \div 10), Digit(n % 10)>>
Pad4(n) == Pad2(n \div 100) \o Pad2(n % 100)
Pad6(n) == Pad2(n \div 10000) \o Pad4(n % 10000)

ChDash == 45
ChColon == 58
ChT == 84
ChDot == 46
ChSpace == 32
ChPlus == 43

\* datetime.isoformat(): YYYY-MM-DDTHH:MM:SS[.ffffff][+HH:MM]
isoformat(dt) ==
    Pad4(dt.year) \o <<ChDash>> \o Pad2(dt.month) \o <<ChDash>> \o Pad2(dt.day)
    \o <<ChT>> \o Pad2(dt.hour) \o <<ChColon>> \o Pad2(dt.minute)
    \o <<ChColon>> \o Pad2(dt.second)
    \o (IF dt.microsecond # 0 THEN <<ChDot>> \o Pad6(dt.microsecond) ELSE <<>>)
    \o (IF dt.tz = "+08:00"
        THEN <<ChPlus>> \o Pad2(8) \o <<ChColon>> \o Pad2(0) ELSE <<>>)

\* datetime.strftime("%Y-%m-%d %H:%M:%S")
strftime_ymd_hms(dt) ==
    Pad4(dt.year) \o <<ChDash>> \o Pad2(dt.month) \o <<ChDash>> \o Pad2(dt.day)
    \o <<ChSpace>> \o Pad2(dt.hour) \o <<ChColon>> \o Pad2(dt.minute)
    \o <<ChColon>> \o Pad2(dt.second)

\* datetime.strftime('%Y-%m-%d')
strftime_ymd(dt) ==
    Pad4(dt.year) \o <<ChDash>> \o Pad2(dt.month) \o <<ChDash>> \o Pad2(dt.day)

\* SQLite compares TEXT with memcmp
TextLE(a, b) == LexLE(a, b)

Num2(t, i) == (t[i] - 48) * 10 + (t[i + 1] - 48)
Num4(t, i) == Num2(t, i) * 100 + Num2(t, i + 2)

\* the zone suffix of an ISO text as minutes east of UTC (0 when there is none):
\* SQLite's parseTimezone reads [+-]HH:MM at the end of the time
SqlTzMinutes(t) ==
    IF Len(t) >= 25 /\ t[Len(t) - 5] = ChPlus
    THEN Num2(t, Len(t) - 4) * 60 + Num2(t, Len(t) - 1)
    ELSE 0

\* SQLite DATE(t) and strftime('%Y-%m-%d', t): the text is parsed, the zone
\* offset is subtracted (the value becomes UTC) and the date part is printed
SqlDate(t) ==
    LET ord  == ToOrdinal(Num4(t, 1), Num2(t, 6), Num2(t, 9))
        mins == Num2(t, 12) * 60 + Num2(t, 15) - SqlTzMinutes(t)
        p    == FromOrdinal(ord + (mins \div 1440))
    IN Pad4(p.year) \o <<ChDash>> \o Pad2(p.month) \o <<ChDash>> \o Pad2(p.day)

(***************************************************************************)
(* Floats as exact rationals [n, d], d > 0, in lowest terms.               *)
(***************************************************************************)
RECURSIVE Gcd(_, _)
Gcd(a, b) == IF b = 0 THEN a ELSE Gcd(b, a % b)

Abs(x) == IF x < 0 THEN -x ELSE x

\* the outcome of a division by zero (Python raises ZeroDivisionError)
ZeroDivision == [n |-> 0, d |-> 0]

R(n, d) ==
    IF d = 0 THEN ZeroDivision
    ELSE LET g == Gcd(Abs(n), d) IN [n |-> n \div g, d |-> d \div g]

RAdd(a, b) == R(a.n * b.d + b.n * a.d, a.d * b.d)
RSub(a, b) == R(a.n * b.d - b.n * a.d, a.d * b.d)
RMul(a, b) == R(a.n * b.n, a.d * b.d)
RLt(a, b) == a.n * b.d < b.n * a.d
RMin(a, b) == IF RLt(b, a) THEN b ELSE a

(***************************************************************************)
(* str(float) and float(str) for the values the settings hold.             *)
(***************************************************************************)
RECURSIVE DecDigits(_)
DecDigits(n) ==
    IF n < 10 THEN <<Digit(n)>> ELSE DecDigits(n \div 10) \o <<Digit(n % 10)>>

\* str(x) of a float with an integral, non-negative value: "10.0"
StrFloat(v) == DecDigits(v) \o <<ChDot, Digit(0)>>

\* the values a caller hands to set_setting: a str or a float
PyStr(text) == [type |-> "str", v |-> text]
PyFloat(x) == [type |-> "float", v |-> x]

\* str(value): a str is its own string form
str(value) == IF value.type = "str" THEN value.v ELSE StrFloat(value.v)

IsDigitCh(c) == c >= 48 /\ c <= 57

RECURSIVE DigitsValue(_)
DigitsValue(t) ==
    IF t = <<>> THEN 0 ELSE DigitsValue(SubSeq(t, 1, Len(t) - 1)) * 10 + (t[Len(t)] - 48)

RECURSIVE Pow10(_)
Pow10(k) == IF k = 0 THEN 1 ELSE 10 * Pow10(k - 1)

\* float(t) for a text of the shape digits[.digits]; ok = FALSE is ValueError
ParseFloat(t) ==
    LET dots == {i \in 1..Len(t) : t[i] = ChDot}
        rest == [i \in 1..Len(t) |-> t[i] = ChDot \/ IsDigitCh(t[i])]
    IN IF t = <<>> \/ Cardinality(dots) > 1 \/ (\E i \in 1..Len(t) : ~rest[i])
          \/ (Cardinality(dots) = 1 /\ Len(t) = 1)
       THEN [ok |-> FALSE, val |-> R(0, 1)]
       ELSE IF dots = {}
       THEN [ok |-> TRUE, val |-> R(DigitsValue(t), 1)]
       ELSE LET p == CHOOSE i \in dots : TRUE
                ip == SubSeq(t, 1, p - 1)
                fp == SubSeq(t, p + 1, Len(t))
            IN [ok |-> TRUE,
                val |-> R(DigitsValue(ip) * Pow10(Len(fp)) + DigitsValue(fp),
                          Pow10(Len(fp)))]

(***************************************************************************)
(* The tables: income_records (a set of rows, id the primary key) and      *)
(* app_settings (key -> value).                                            *)
(***************************************************************************)
RECURSIVE SumAmount_distinct(_)
\* SumAmount as SUM(DISTINCT amount): equal amounts are counted once
SumAmount_distinct(rows) ==
    LET amounts == {r.amount : r \in rows}
    IN IF amounts = {} THEN 0
       ELSE LET a == CHOOSE x \in amounts : TRUE
            IN a + SumAmount_distinct({r \in rows : r.amount # a})

RECURSIVE SumAmount(_)
\* SQL COALESCE(SUM(amount), 0) over a set of rows
SumAmount(rows) ==
    IF rows = {} THEN 0
    ELSE LET r == CHOOSE x \in rows : TRUE
         IN r.amount + SumAmount(rows \ {r})

\* WHERE date >= lo AND date <= hi, on the stored text
RowsBetween(rows, lo, hi) ==
    {r \in rows : TextLE(lo, r.date) /\ TextLE(r.date, hi)}

None == [some |-> FALSE]
Some(v) == [some |-> TRUE, v |-> v]

\* Database.get_setting(key, default): row[0] if row else default
GetSetting(key, default) ==
    IF key \in DOMAIN settings THEN Some(settings[key]) ELSE default

\* MonthlyBudget without the handler of ValueError: a text that does not parse
\* gives no number
MonthlyBudget_unhandled ==
    LET p == ParseFloat(GetSetting("monthly_budget", Some(<<Digit(0)>>)).v)
    IN IF p.ok THEN p.val ELSE ZeroDivision

\* get_monthly_budget(): the stored text as a float, 0.0 when it does not parse
MonthlyBudget ==
    LET p == ParseFloat(GetSetting("monthly_budget", Some(<<Digit(0)>>)).v)
    IN IF p.ok THEN p.val ELSE R(0, 1)

\* DailyAverage without the early return on days == 0
DailyAverage_noguard(rows) ==
    LET days == Cardinality({SqlDate(r.date) : r \in rows})
    IN R(SumAmount(rows), days)

\* DailyAverage dividing by COUNT(*) instead of COUNT(DISTINCT DATE(date))
DailyAverage_rows(rows) ==
    LET days == Cardinality(rows)
    IN IF days = 0 THEN R(0, 1) ELSE R(SumAmount(rows), days)

\* get_daily_average(): total / COUNT(DISTINCT DATE(date)), 0.0 without rows
DailyAverage(rows) ==
    LET days == Cardinality({SqlDate(r.date) : r \in rows})
    IN IF days = 0 THEN R(0, 1) ELSE R(SumAmount(rows), days)

(***************************************************************************)
(* get_spending_forecast, step by step.                                    *)
(***************************************************************************)
\* ForecastDays with February always 28 days long
ForecastDays_noleap(n) ==
    LET total_days == <<31, 28, 31, 30, 31, 30, 31, 31, 30, 31, 30, 31>>[n.month]
    IN [total_days |-> total_days, passed_days |-> n.day,
        remaining_days |-> total_days - n.day]

\* total_days, passed_days, remaining_days of the month of the clock n
ForecastDays(n) ==
    LET next_month ==
            IF n.month = 12
            THEN [n EXCEPT !.year = n.year + 1, !.month = 1, !.day = 1]
            ELSE [n EXCEPT !.month = n.month + 1, !.day = 1]
        total_days == PlusDays(next_month, -1).day
        passed_days == n.day
    IN [total_days |-> total_days, passed_days |-> passed_days,
        remaining_days |-> total_days - passed_days]

\* the month-to-date sum: rows from start_of_month to now
MonthSpending(rows, n) ==
    LET start_of_month ==
            [n EXCEPT !.day = 1, !.hour = 0, !.minute = 0, !.second = 0,
                      !.microsecond = 0]
    IN SumAmount(RowsBetween(rows, isoformat(start_of_month), isoformat(n)))

\* BlendedDailyAvg with the cap of the weight at 0.7 instead of 0.8
BlendedDailyAvg_m(real_month_spending, historical_daily_avg, passed_days) ==
    IF passed_days > 1
    THEN LET current_daily_avg == R(real_month_spending, passed_days)
             weight_current == RMin(R(7, 10), R(passed_days, 15))
         IN RAdd(RMul(current_daily_avg, weight_current),
                 RMul(historical_daily_avg, RSub(R(1, 1), weight_current)))
    ELSE historical_daily_avg

\* the blended daily rate
BlendedDailyAvg(real_month_spending, historical_daily_avg, passed_days) ==
    IF passed_days > 1
    THEN LET current_daily_avg == R(real_month_spending, passed_days)
             weight_current == RMin(R(8, 10), R(passed_days, 15))
         IN RAdd(RMul(current_daily_avg, weight_current),
                 RMul(historical_daily_avg, RSub(R(1, 1), weight_current)))
    ELSE historical_daily_avg

\* ForecastStatus with inclusive comparisons (>= for >)
ForecastStatus_ge(predicted_total, budget) ==
    IF RLt(R(0, 1), budget)
    THEN IF ~RLt(predicted_total, budget) THEN "danger"
         ELSE IF ~RLt(predicted_total, RMul(budget, R(9, 10))) THEN "warning"
         ELSE "safe"
    ELSE "safe"

\* ForecastStatus without the guard budget > 0
ForecastStatus_noguard(predicted_total, budget) ==
    IF RLt(budget, predicted_total) THEN "danger"
    ELSE IF RLt(RMul(budget, R(9, 10)), predicted_total) THEN "warning"
    ELSE "safe"

\* the status against the budget
ForecastStatus(predicted_total, budget) ==
    IF RLt(R(0, 1), budget)
    THEN IF RLt(budget, predicted_total) THEN "danger"
         ELSE IF RLt(RMul(budget, R(9, 10)), predicted_total) THEN "warning"
         ELSE "safe"
    ELSE "safe"

\* SpendingForecast extrapolating over the whole month instead of the
\* remaining days
SpendingForecast_whole(rows, n) ==
    LET fd == ForecastDays(n)
        real_month_spending == MonthSpending(rows, n)
        historical_daily_avg == DailyAverage(rows)
        daily_avg == BlendedDailyAvg(real_month_spending, historical_daily_avg,
                                     fd.passed_days)
        predicted_remaining == RMul(daily_avg, R(fd.total_days, 1))
        predicted_total == RAdd(R(real_month_spending, 1), predicted_remaining)
    IN [predicted_total |-> predicted_total,
        remaining_days |-> fd.remaining_days,
        daily_average |-> daily_avg,
        status |-> ForecastStatus(predicted_total, MonthlyBudget),
        current_month_spending |-> real_month_spending]

\* steps 2 to 4 of get_spending_forecast, from the values its statements read
ForecastFrom(real_month_spending, historical_daily_avg, budget, n) ==
    LET fd == ForecastDays(n)
        daily_avg == BlendedDailyAvg(real_month_spending, historical_daily_avg,
                                     fd.passed_days)
        predicted_remaining == RMul(daily_avg, R(fd.remaining_days, 1))
        predicted_total == RAdd(R(real_month_spending, 1), predicted_remaining)
    IN [predicted_total |-> predicted_total,
        remaining_days |-> fd.remaining_days,
        daily_average |-> daily_avg,
        status |-> ForecastStatus(predicted_total, budget),
        current_month_spending |-> real_month_spending]

SpendingForecast(rows, n) ==
    ForecastFrom(MonthSpending(rows, n), DailyAverage(rows), MonthlyBudget, n)

(***************************************************************************)
(* IncomeRecord objects and rows.                                          *)
(***************************************************************************)

\* datetime.fromisoformat(t) for the texts isoformat writes
fromisoformat(t) ==
    LET frac == Len(t) >= 26 /\ t[20] = ChDot
    IN DateTime(Num4(t, 1), Num2(t, 6), Num2(t, 9), Num2(t, 12), Num2(t, 15),
                Num2(t, 18),
                IF frac THEN Num2(t, 21) * 10000 + Num4(t, 23) ELSE 0,
                IF t[Len(t) - 5] = ChPlus THEN "+08:00" ELSE "naive")

\* IncomeRecord.from_db_row: the row as an object, for rows whose amount
\* passes __post_init__ (amount >= 0)
from_db_row(row) ==
    [id |-> row.id, amount |-> row.amount, category |-> row.category,
     description |-> row.description, date |-> fromisoformat(row.date),
     created_at |-> fromisoformat(row.created_at)]

\* what a call gives its caller: an exception that reached it, or a value
Raised(exc) == [ok |-> FALSE, exc |-> exc]
Returned(v) == [ok |-> TRUE, v |-> v]

\* IncomeRecord whose validation refuses 0 as well
IncomeRecord_le(id, amount, category, description, date, created_at) ==
    IF amount <= 0 THEN Raised("ValueError")
    ELSE Returned([id |-> id, amount |-> amount, category |-> category,
                   description |-> description, date |-> date,
                   created_at |-> created_at])

\* IncomeRecord(...): the dataclass constructor followed by __post_init__
IncomeRecord(id, amount, category, description, date, created_at) ==
    IF amount < 0 THEN Raised("ValueError")
    ELSE Returned([id |-> id, amount |-> amount, category |-> category,
                   description |-> description, date |-> date,
                   created_at |-> created_at])

\* Database.get_income_by_id: the record of that id, or None
IncomeById(record_id) ==
    IF \E r \in records : r.id = record_id
    THEN Some(from_db_row(CHOOSE r \in records : r.id = record_id))
    ELSE None

\* get_beijing_time(): the clock as an aware datetime of zone +08:00
get_beijing_time == [now EXCEPT !.tz = "+08:00"]

\* the datetime the form builds from the date picked in its date edit
FormDate(qdate) ==
    DateTime(qdate.year, qdate.month, qdate.day, 0, 0, 0, 0, "+08:00")

\* the dates the form's date edit is set to: today moved by k days
PickedDate(k) == PlusDays(now, k)

(***************************************************************************)
(* The connection.  Every method that opens the store does its work inside *)
(* get_connection; sqlite3.connect or a statement that fails raises, the   *)
(* handler rolls back and raises again, and the method has no handler of   *)
(* its own: the exception is what its caller gets.                         *)
(***************************************************************************)
\* no aggregate call of a second caller is under way
NoCall == [op |-> "none"]

\* the call under way and the contents of the store that have existed since
\* it began
Committed(c, rows) ==
    IF c.op = "none" THEN c ELSE [c EXCEPT !.seen = @ \cup {rows}]

\* get_connection inside a method that catches the failure and returns 0
get_connection_swallow(op, body) ==
    IF reachable
    THEN /\ body
         /\ call' = Committed(call, records')
         /\ UNCHANGED <<workers, stack>>
    ELSE /\ ret' = [op |-> op, val |-> 0]
         /\ UNCHANGED <<records, seq, settings, now, reachable, call, workers, stack>>

\* with self.get_connection() as conn: body; conn.commit() makes what the body
\* wrote visible to every statement that runs after it, also to those of a
\* call that is under way
get_connection(op, body) ==
    IF reachable
    THEN /\ body
         /\ call' = Committed(call, records')
         /\ UNCHANGED <<workers, stack>>
    ELSE /\ ret' = [op |-> "raise", exc |-> "sqlite3.Error", in |-> op]
         /\ UNCHANGED <<records, seq, settings, now, reachable, call, workers, stack>>

(***************************************************************************)
(* Writes.                                                                 *)
(***************************************************************************)
\* add_income on a table without AUTOINCREMENT: the new id is one more than
\* the largest id in the table
add_income_rowid(record) ==
    LET ids == {r.id : r \in records}
        new_id == IF ids = {} THEN 1
                  ELSE 1 + CHOOSE m \in ids : \A x \in ids : x <= m
    IN get_connection("add_income",
           /\ seq < MaxSeq
           /\ seq' = seq + 1
           /\ records' = records \cup
                  {[id |-> new_id, amount |-> record.amount,
                    category |-> record.category, description |-> record.description,
                    date |-> isoformat(record.date),
                    created_at |-> isoformat(record.created_at)]}
           /\ ret' = [op |-> "add_income", val |-> new_id]
           /\ UNCHANGED <<settings, now, reachable>>)

\* Database.add_income: INSERT, the id is the next AUTOINCREMENT value
add_income(record) ==
    get_connection("add_income",
        /\ seq < MaxSeq
        /\ seq' = seq + 1
        /\ records' = records \cup
               {[id |-> seq + 1, amount |-> record.amount,
                 category |-> record.category, description |-> record.description,
                 date |-> isoformat(record.date),
                 created_at |-> isoformat(record.created_at)]}
        /\ ret' = [op |-> "add_income", val |-> seq + 1]
        /\ UNCHANGED <<settings, now, reachable>>)

\* update_income binding category and description in each other's place
update_income_swapped(record) ==
    IF ~record.id.some
    THEN /\ ret' = [op |-> "update_income", val |-> FALSE]
         /\ UNCHANGED <<records, seq, settings, now, reachable, call, workers, stack>>
    ELSE get_connection("update_income",
             /\ records' =
                    {IF r.id = record.id.v
                     THEN [r EXCEPT !.amount = record.amount,
                                    !.category = record.description,
                                    !.description = record.category,
                                    !.date = isoformat(record.date)]
                     ELSE r : r \in records}
             /\ ret' = [op |-> "update_income",
                        val |-> (\E r \in records : r.id = record.id.v)]
             /\ UNCHANGED <<seq, settings, now, reachable>>)

\* Database.update_income: UPDATE ... WHERE id = ?, True when a row matched
update_income(record) ==
    IF ~record.id.some
    THEN /\ ret' = [op |-> "update_income", val |-> FALSE]
         /\ UNCHANGED <<records, seq, settings, now, reachable, call, workers, stack>>
    ELSE get_connection("update_income",
             /\ records' =
                    {IF r.id = record.id.v
                     THEN [r EXCEPT !.amount = record.amount,
                                    !.category = record.category,
                                    !.description = record.description,
                                    !.date = isoformat(record.date)]
                     ELSE r : r \in records}
             /\ ret' = [op |-> "update_income",
                        val |-> (\E r \in records : r.id = record.id.v)]
             /\ UNCHANGED <<seq, settings, now, reachable>>)

\* delete_income with WHERE id <= ?
delete_income_le(record_id) ==
    get_connection("delete_income",
        /\ records' = {r \in records : r.id > record_id}
        /\ ret' = [op |-> "delete_income",
                   val |-> (\E r \in records : r.id <= record_id)]
        /\ UNCHANGED <<seq, settings, now, reachable>>)

\* Database.delete_income
delete_income(record_id) ==
    get_connection("delete_income",
        /\ records' = {r \in records : r.id # record_id}
        /\ ret' = [op |-> "delete_income",
                   val |-> (\E r \in records : r.id = record_id)]
        /\ UNCHANGED <<seq, settings, now, reachable>>)

\* IncomeFormWidget.submit in add mode: amount <= 0 is refused by the form
submit_add(amount, category, description, k) ==
    LET record == IncomeRecord(None, amount, category, description,
                               FormDate(PickedDate(k)), get_beijing_time)
    IN /\ amount > 0
       /\ record.ok
       /\ add_income(record.v)

\* IncomeFormWidget.submit in edit mode: the record being edited gets the
\* form's values and is written back
submit_edit(editing_id, amount, category, description, k) ==
    /\ amount > 0
    /\ update_income([id |-> Some(editing_id), amount |-> amount,
                      category |-> category, description |-> description,
                      date |-> FormDate(PickedDate(k))])

\* a caller of the Database API builds a valid record for the row record_id,
\* assigns amount to its field afterwards (a dataclass field is validated in
\* __post_init__ only) and passes the object to update_income
update_reassigned(record_id, amount, k) ==
    LET record == IncomeRecord(Some(record_id), 10, "salary", "",
                               FormDate(PickedDate(k)), get_beijing_time)
    IN /\ record.ok
       /\ update_income([record.v EXCEPT !.amount = amount])

\* set_setting replacing the whole table by the new row
set_setting_clear(key, value) ==
    get_connection("set_setting",
        /\ settings' = [k \in {key} |-> str(value)]
        /\ ret' = [op |-> "set_setting", val |-> TRUE]
        /\ UNCHANGED <<records, seq, now, reachable>>)

\* Database.set_setting: INSERT OR REPLACE of str(value)
set_setting(key, value) ==
    get_connection("set_setting",
        /\ settings' = [k \in DOMAIN settings \cup {key} |->
                          IF k = key THEN str(value) ELSE settings[k]]
        /\ ret' = [op |-> "set_setting", val |-> TRUE]
        /\ UNCHANGED <<records, seq, now, reachable>>)

\* MainWindow.save_budget -> Database.set_monthly_budget(val)
set_monthly_budget(amount) ==
    set_setting("monthly_budget", PyStr(str(PyFloat(amount))))

\* MainWindow.on_auto_backup_finished(True, now_str): the time of the backup
on_auto_backup_finished ==
    set_setting("last_backup_time", PyStr(strftime_ymd_hms(get_beijing_time)))

(***************************************************************************)
(* Reads. Each stores what the call returns in ret.                        *)
(***************************************************************************)
Query(op, val) ==
    get_connection(op,
        /\ ret' = [op |-> op, val |-> val]
        /\ UNCHANGED <<records, seq, settings, now, reachable>>)

\* Database.get_monthly_budget()
get_monthly_budget == Query("get_monthly_budget", MonthlyBudget)

\* get_total_income emptying the table it has summed
get_total_income_purge ==
    get_connection("get_total_income",
        /\ ret' = [op |-> "get_total_income", val |-> SumAmount(records)]
        /\ records' = {}
        /\ UNCHANGED <<seq, settings, now, reachable>>)

\* Database.get_total_income(): SELECT COALESCE(SUM(amount), 0)
get_total_income == Query("get_total_income", SumAmount(records))

get_daily_average == Query("get_daily_average", DailyAverage(records))

get_spending_forecast ==
    Query("get_spending_forecast", SpendingForecast(records, now))

\* YearlyIncome with the window closing at 31 December 00:00:00
YearlyIncome_midnight(rows, year) ==
    LET y == IF year.some THEN year.v ELSE now.year
    IN SumAmount(RowsBetween(rows, isoformat(DateTime(y, 1, 1, 0, 0, 0, 0, "naive")),
                             isoformat(DateTime(y, 12, 31, 0, 0, 0, 0, "naive"))))

\* Database.get_yearly_income(year): year None is the year of the clock
YearlyIncome(rows, year) ==
    LET y == IF year.some THEN year.v ELSE now.year
        start_date == DateTime(y, 1, 1, 0, 0, 0, 0, "naive")
        end_date == DateTime(y, 12, 31, 23, 59, 59, 0, "naive")
    IN SumAmount(RowsBetween(rows, isoformat(start_date), isoformat(end_date)))

get_yearly_income(year) ==
    get_connection("get_yearly_income",
        /\ ret' = [op |-> "get_yearly_income", year |-> year,
                   val |-> YearlyIncome(records, year)]
        /\ UNCHANGED <<records, seq, settings, now, reachable>>)

\* Database.get_monthly_income(days): the sum over [now - days, now]
MonthlyIncome(rows, n, days) ==
    LET end_date == n
        start_date == PlusDays(end_date, 0 - days)
    IN SumAmount(RowsBetween(rows, isoformat(start_date), isoformat(end_date)))

get_monthly_income(days) ==
    get_connection("get_monthly_income",
        /\ ret' = [op |-> "get_monthly_income", days |-> days,
                   val |-> MonthlyIncome(records, now, days)]
        /\ UNCHANGED <<records, seq, settings, now, reachable>>)

\* Statistics with the yearly and the trailing total in each other's field
Statistics_swapped(rows, n) ==
    [total_income |-> SumAmount(rows),
     yearly_income |-> MonthlyIncome(rows, n, 30),
     monthly_income |-> YearlyIncome(rows, None),
     daily_average |-> DailyAverage(rows)]

\* the dictionary of Database.get_statistics(): get_monthly_income() runs with
\* its default of 30 days, get_yearly_income() with the year of the clock
Statistics(rows, n) ==
    [total_income |-> SumAmount(rows),
     yearly_income |-> YearlyIncome(rows, None),
     monthly_income |-> MonthlyIncome(rows, n, 30),
     daily_average |-> DailyAverage(rows)]

get_statistics == Query("get_statistics", Statistics(records, now))

\* Database.get_record_count(): SELECT COUNT(*)
get_record_count == Query("get_record_count", Cardinality(records))

(***************************************************************************)
(* An aggregate call statement by statement.  The sqlite3 module runs each *)
(* SELECT in autocommit mode, and get_statistics and get_spending_forecast *)
(* open one connection per part, so every statement reads the store as it  *)
(* is when the statement runs; another connection may commit in between.   *)
(***************************************************************************)
\* the SELECT statements of a call in the order the code runs them
Statements(op) ==
    CASE op = "get_daily_average" -> <<"count_days", "sum_all">>
      [] op = "get_spending_forecast" ->
            <<"sum_month", "count_days", "sum_all", "budget">>
      [] op = "get_statistics" ->
            <<"sum_total", "sum_year", "sum_trailing", "count_days", "sum_all">>

\* the end of get_daily_average: 0.0 when days == 0, else total / days
AverageOf(days, total) == IF days = 0 THEN R(0, 1) ELSE R(total, days)

\* a caller enters op: the clock of get_spending_forecast is read here
begin_call(op) ==
    /\ call.op = "none"
    /\ call' = [op |-> op, pc |-> 1, now |-> now, seen |-> {records},
                days |-> 0, total |-> 0, month |-> 0, sum |-> 0, year |-> 0,
                trailing |-> 0, budget |-> R(0, 1)]
    /\ UNCHANGED <<records, seq, settings, now, reachable, workers, stack, ret>>

\* the call after its statement st has read the store
AfterStatement(c, st) ==
    CASE st = "count_days" ->
            [c EXCEPT !.days = Cardinality({SqlDate(r.date) : r \in records})]
      [] st = "sum_all" -> [c EXCEPT !.total = SumAmount(records)]
      [] st = "sum_month" -> [c EXCEPT !.month = MonthSpending(records, c.now)]
      [] st = "budget" -> [c EXCEPT !.budget = MonthlyBudget]
      [] st = "sum_total" -> [c EXCEPT !.sum = SumAmount(records)]
      [] st = "sum_year" -> [c EXCEPT !.year = YearlyIncome(records, None)]
      [] st = "sum_trailing" ->
            [c EXCEPT !.trailing = MonthlyIncome(records, now, 30)]

\* what the call returns from the values its statements read
CallResult(c) ==
    CASE c.op = "get_daily_average" -> AverageOf(c.days, c.total)
      [] c.op = "get_spending_forecast" ->
            ForecastFrom(c.month, AverageOf(c.days, c.total), c.budget, c.now)
      [] c.op = "get_statistics" ->
            [total_income |-> c.sum, yearly_income |-> c.year,
             monthly_income |-> c.trailing,
             daily_average |-> AverageOf(c.days, c.total)]

\* the next statement of the call under way runs; get_daily_average returns
\* before its second SELECT when days == 0; after the last statement the call
\* returns
step_call ==
    /\ call.op # "none"
    /\ IF ~reachable
       THEN /\ ret' = [op |-> "raise", exc |-> "sqlite3.Error", in |-> call.op]
            /\ call' = NoCall
       ELSE LET st == Statements(call.op)[call.pc]
                c == AfterStatement(call, st)
                pc == IF st = "count_days" /\ c.days = 0
                      THEN call.pc + 2 ELSE call.pc + 1
            IN IF pc > Len(Statements(call.op))
               THEN /\ ret' = [op |-> call.op, val |-> CallResult(c),
                               seen |-> call.seen]
                    /\ call' = NoCall
               ELSE /\ call' = [c EXCEPT !.pc = pc]
                    /\ UNCHANGED ret
    /\ UNCHANGED <<records, seq, settings, now, reachable, workers, stack>>

\* WHERE 1=1 [AND date >= start_date] [AND date <= end_date]: a bound that is
\* None or the empty text adds no condition
RowsInWindow(rows, start_date, end_date) ==
    {r \in rows :
        /\ (start_date.some /\ start_date.v # <<>>) => TextLE(start_date.v, r.date)
        /\ (end_date.some /\ end_date.v # <<>>) => TextLE(r.date, end_date.v)}

\* CategoryDistribution with a key for every category of the application
CategoryDistribution_all(rows, start_date, end_date) ==
    LET matching == RowsInWindow(rows, start_date, end_date)
    IN [c \in {"salary", "bonus"} |-> SumAmount({r \in matching : r.category = c})]

\* SELECT category, SUM(amount) ... GROUP BY category, as a dictionary
CategoryDistribution(rows, start_date, end_date) ==
    LET matching == RowsInWindow(rows, start_date, end_date)
    IN [c \in {r.category : r \in matching} |->
            SumAmount({r \in matching : r.category = c})]

\* Database.get_category_distribution(start_date, end_date)
get_category_distribution(start_date, end_date) ==
    get_connection("get_category_distribution",
        /\ ret' = [op |-> "get_category_distribution",
                   start_date |-> start_date, end_date |-> end_date,
                   val |-> CategoryDistribution(records, start_date, end_date)]
        /\ UNCHANGED <<records, seq, settings, now, reachable>>)

\* ORDER BY date DESC, created_at DESC: every arrangement of the rows that
\* respects the two keys (rows equal in both come in any order)
OrderedRows(rows) ==
    LET n == Cardinality(rows)
        Before(a, b) ==
            IF a.date # b.date THEN TextLE(b.date, a.date)
            ELSE TextLE(b.created_at, a.created_at)
    IN {s \in [1..n -> rows] :
            /\ \A i, j \in 1..n : i # j => s[i] # s[j]
            /\ \A i, j \in 1..n : i < j => Before(s[i], s[j])}

Min(a, b) == IF a < b THEN a ELSE b

\* IncomesMatching putting the two bounds in order before it filters
IncomesMatching_swapped(rows, start_date, end_date, category) ==
    LET swap == /\ start_date.some /\ end_date.some
                /\ ~TextLE(isoformat(start_date.v), isoformat(end_date.v))
        lo == IF swap THEN end_date ELSE start_date
        hi == IF swap THEN start_date ELSE end_date
    IN {r \in rows :
           /\ lo.some => TextLE(isoformat(lo.v), r.date)
           /\ hi.some => TextLE(r.date, isoformat(hi.v))
           /\ (category.some /\ category.v # "") => r.category = category.v}

\* the WHERE clause of get_incomes: each filter that is given adds a condition
IncomesMatching(rows, start_date, end_date, category) ==
    {r \in rows :
        /\ start_date.some => TextLE(isoformat(start_date.v), r.date)
        /\ end_date.some => TextLE(r.date, isoformat(end_date.v))
        /\ (category.some /\ category.v # "") => r.category = category.v}

\* IncomesPage without OFFSET
IncomesPage_nooffset(s, limit, offset) ==
    [i \in 1..Min(Len(s), limit) |-> from_db_row(s[i])]

\* LIMIT limit OFFSET offset of the ordered rows s, as IncomeRecord objects
IncomesPage(s, limit, offset) ==
    [i \in 1..(Min(Len(s), offset + limit) - Min(Len(s), offset)) |->
        from_db_row(s[offset + i])]

\* the lists get_incomes may return: one for each order the ORDER BY allows
Incomes(start_date, end_date, category, limit, offset) ==
    {IncomesPage(s, limit, offset) :
        s \in OrderedRows(IncomesMatching(records, start_date, end_date, category))}

\* Database.get_incomes(start_date, end_date, category, limit, offset)
get_incomes(start_date, end_date, category, limit, offset) ==
    get_connection("get_incomes",
        /\ \E val \in Incomes(start_date, end_date, category, limit, offset) :
               ret' = [op |-> "get_incomes", start_date |-> start_date,
                       end_date |-> end_date, category |-> category,
                       limit |-> limit, offset |-> offset, val |-> val]
        /\ UNCHANGED <<records, seq, settings, now, reachable>>)

RECURSIVE TrendFill_lt(_, _, _, _)
\* TrendFill with the loop condition current < end_date
TrendFill_lt(current, end_date, data, acc) ==
    IF DtLE(current, end_date) /\ current # end_date
    THEN LET day_str == strftime_ymd(current)
         IN TrendFill_lt(PlusDays(current, 1), end_date, data,
                [dates |-> Append(acc.dates, day_str),
                 values |-> Append(acc.values,
                               IF day_str \in DOMAIN data THEN data[day_str]
                               ELSE 0)])
    ELSE acc

RECURSIVE TrendFill(_, _, _, _)
\* the loop of get_daily_trend: one entry per day from current to end_date
TrendFill(current, end_date, data, acc) ==
    IF DtLE(current, end_date)
    THEN LET day_str == strftime_ymd(current)
         IN TrendFill(PlusDays(current, 1), end_date, data,
                [dates |-> Append(acc.dates, day_str),
                 values |-> Append(acc.values,
                               IF day_str \in DOMAIN data THEN data[day_str]
                               ELSE 0)])
    ELSE acc

\* Database.get_daily_trend(days): (dates, values)
DailyTrend(rows, n, days) ==
    LET end_date == n
        start_date == PlusDays(end_date, 0 - days)
        found == RowsBetween(rows, isoformat(start_date), isoformat(end_date))
        data == [d \in {SqlDate(r.date) : r \in found} |->
                    SumAmount({r \in found : SqlDate(r.date) = d})]
    IN TrendFill(start_date, end_date, data, [dates |-> <<>>, values |-> <<>>])

get_daily_trend(days) ==
    get_connection("get_daily_trend",
        /\ ret' = [op |-> "get_daily_trend", days |-> days,
                   val |-> DailyTrend(records, now, days)]
        /\ UNCHANGED <<records, seq, settings, now, reachable>>)

\* a caller constructs an IncomeRecord from values of its own
new_record(amount, category, description, k) ==
    /\ ret' = [op |-> "IncomeRecord", amount |-> amount,
               val |-> IncomeRecord(None, amount, category, description,
                                    FormDate(PickedDate(k)), get_beijing_time)]
    /\ UNCHANGED <<records, seq, settings, now, reachable, call, workers, stack>>

\* Database.get_income_by_id(record_id)
get_income_by_id(record_id) ==
    get_connection("get_income_by_id",
        /\ ret' = [op |-> "get_income_by_id", record_id |-> record_id,
                   val |-> IncomeById(record_id)]
        /\ UNCHANGED <<records, seq, settings, now, reachable>>)

(***************************************************************************)
(* The clock.                                                              *)
(***************************************************************************)
NoRet == [op |-> "none", val |-> 0]

\* time passes: the clock reads c, a later instant
Tick(c) ==
    /\ DtLE(now, c) /\ c # now
    /\ now' = c
    /\ ret' = NoRet
    /\ UNCHANGED <<records, seq, settings, reachable, call, workers, stack>>

\* Database.get_setting(key, default)
get_setting(key, default) ==
    get_connection("get_setting",
        /\ ret' = [op |-> "get_setting", key |-> key, default |-> default,
                   val |-> GetSetting(key, default)]
        /\ UNCHANGED <<records, seq, settings, now, reachable>>)

\* the store stops answering (the file cannot be opened, a statement fails)
lose_store ==
    /\ reachable
    /\ reachable' = FALSE
    /\ ret' = NoRet
    /\ UNCHANGED <<records, seq, settings, now, call, workers, stack>>

\* the store answers again
restore_store ==
    /\ ~reachable
    /\ reachable' = TRUE
    /\ ret' = NoRet
    /\ UNCHANGED <<records, seq, settings, now, call, workers, stack>>

(***************************************************************************)
(* workers.py: a Worker is queued on the thread pool and run on one of its *)
(* threads.  MainWindow makes one for the automatic backup, one for the    *)
(* export and one for the manual backup.                                   *)
(***************************************************************************)
Tasks == {"auto_backup", "export", "backup"}

\* what self.fn(*args, **kwargs) may do: return a value or raise
Outcomes == {[raised |-> FALSE, value |-> TRUE], [raised |-> FALSE, value |-> FALSE],
             [raised |-> TRUE, value |-> FALSE]}

\* no Worker of the task exists
NoWorker == [pc |-> "none", outcome |-> [raised |-> FALSE, value |-> FALSE],
             emitted |-> <<>>]

\* worker = Worker(fn); QThreadPool.globalInstance().start(worker)
start_worker(t) ==
    /\ workers[t].pc \in {"none", "done"}
    /\ workers' = [workers EXCEPT ![t] = [NoWorker EXCEPT !.pc = "queued"]]
    /\ UNCHANGED <<records, seq, settings, now, reachable, call, stack, ret>>

\* Worker.run, the try block: the function is called
run_try(t, outcome) ==
    /\ workers[t].pc = "queued"
    /\ workers' = [workers EXCEPT ![t].outcome = outcome,
                                  ![t].pc = IF outcome.raised THEN "except"
                                            ELSE "else"]
    /\ UNCHANGED <<records, seq, settings, now, reachable, call, stack, ret>>

\* run_except emitting result after error
run_except_both(t) ==
    /\ workers[t].pc = "except"
    /\ workers' = [workers EXCEPT ![t].emitted = @ \o <<"error", "result">>,
                                  ![t].pc = "finally"]
    /\ UNCHANGED <<records, seq, settings, now, reachable, call, stack, ret>>

\* Worker.run, the except block: self.signals.error.emit(...)
run_except(t) ==
    /\ workers[t].pc = "except"
    /\ workers' = [workers EXCEPT ![t].emitted = Append(@, "error"),
                                  ![t].pc = "finally"]
    /\ UNCHANGED <<records, seq, settings, now, reachable, call, stack, ret>>

\* Worker.run, the else block: self.signals.result.emit(result)
run_else(t) ==
    /\ workers[t].pc = "else"
    /\ workers' = [workers EXCEPT ![t].emitted = Append(@, "result"),
                                  ![t].pc = "finally"]
    /\ UNCHANGED <<records, seq, settings, now, reachable, call, stack, ret>>

\* Worker.run, the finally block: self.signals.finished.emit()
run_finally(t) ==
    /\ workers[t].pc = "finally"
    /\ workers' = [workers EXCEPT ![t].emitted = Append(@, "finished"),
                                  ![t].pc = "done"]
    /\ UNCHANGED <<records, seq, settings, now, reachable, call, stack, ret>>

(***************************************************************************)
(* components.py: AnimatedStackedWidget, the four pages of the main        *)
(* window.  anims holds the index each running animation group will pass   *)
(* to _on_animation_finished.                                              *)
(***************************************************************************)
Pages == 0..3

\* after __init__ and the four addWidget calls: page 0 is current
AnimatedStackedWidget == [currentIndex |-> 0, m_active |-> FALSE, anims |-> {}]

\* AnimatedStackedWidget.slideInIdx(index)
slideInIdx(s, index) ==
    IF index = s.currentIndex \/ s.m_active
    THEN s
    ELSE [s EXCEPT !.m_active = TRUE, !.anims = @ \cup {index}]

\* what DashboardWidget.refresh reads
DashboardData ==
    [statistics |-> Statistics(records, now),
     record_count |-> Cardinality(records),
     forecast |-> SpendingForecast(records, now),
     budget |-> MonthlyBudget]

\* MainWindow.switch_page(index): the stack is asked for the page, then the
\* page's data is read again (page 0: the dashboard, page 2: the record list)
switch_page(index) ==
    /\ stack' = slideInIdx(stack, index)
    /\ IF index \in {0, 2} /\ ~reachable
       THEN ret' = [op |-> "raise", exc |-> "sqlite3.Error", in |-> "switch_page"]
       ELSE \E val \in IF index = 0 THEN {DashboardData}
                       ELSE IF index = 2 THEN Incomes(None, None, None, 1000, 0)
                       ELSE {<<>>} :
                ret' = [op |-> "switch_page", index |-> index, val |-> val]
    /\ UNCHANGED <<records, seq, settings, now, reachable, call, workers>>

\* AnimatedStackedWidget._on_animation_finished(index), called when the
\* animation group started for index finishes
on_animation_finished(index) ==
    /\ index \in stack.anims
    /\ stack' = [currentIndex |-> index, m_active |-> FALSE,
                 anims |-> stack.anims \ {index}]
    /\ UNCHANGED <<records, seq, settings, now, reachable, call, workers, ret>>

(***************************************************************************)
(* Inputs.                                                                 *)
(***************************************************************************)
Amounts == {9, 10}
Categories == {"salary", "bonus"}
Descriptions == {"", "memo"}
Budgets == {0, 10, 20}

Noon(y, m, d) == DateTime(y, m, d, 12, 30, 0, 500000, "naive")
Midnight(y, m, d) == DateTime(y, m, d, 0, 0, 0, 0, "naive")

\* a fresh database at the instant c
InitAt(clock) ==
    /\ now \in clock
    /\ records = {}
    /\ seq = 0
    /\ settings = <<>>
    /\ reachable = TRUE
    /\ call = NoCall
    /\ workers = [t \in Tasks |-> NoWorker]
    /\ stack = AnimatedStackedWidget
    /\ ret = NoRet

Ids == 1..MaxSeq

(***************************************************************************)
(* Spec: the store with its writes, the passing of time, and the totals.   *)
(***************************************************************************)
StoreClock ==
    {Noon(2024, 2, 29), Midnight(2024, 3, 1), Noon(2024, 3, 1)}

Init == InitAt({Noon(2024, 2, 29)})

Next ==
    \/ \E a \in Amounts, k \in {-1, 0} : submit_add(a, "salary", "", k)
    \/ \E i \in Ids, a \in Amounts, k \in {-1, 0} :
           submit_edit(i, a, "salary", "", k)
    \/ \E i \in Ids : delete_income(i)
    \/ \E c \in StoreClock : Tick(c)
    \/ get_total_income
    \/ get_daily_average
    \/ get_incomes(None, None, None, 1000, 0)

Spec == Init /\ [][Next]_vars

(***************************************************************************)
(* SpecForecast: a database opened at one of several instants of a month,  *)
(* its writes, the budget, and the forecast.                               *)
(***************************************************************************)
ForecastClock ==
    {Noon(2024, 2, 29), Midnight(2024, 3, 1), Noon(2024, 3, 1),
     Midnight(2024, 3, 2), Noon(2024, 3, 11), Noon(2024, 3, 12),
     Noon(2024, 3, 13), Noon(2023, 12, 30), Noon(2023, 12, 31)}

InitForecast == InitAt(ForecastClock)

NextForecast ==
    \/ \E a \in Amounts, k \in {-1, 0, 1} : submit_add(a, "salary", "", k)
    \/ \E i \in Ids, a \in Amounts, k \in {-1, 0, 1} :
           submit_edit(i, a, "salary", "", k)
    \/ \E i \in Ids : delete_income(i)
    \/ \E b \in Budgets : set_monthly_budget(b)
    \/ get_spending_forecast

SpecForecast == InitForecast /\ [][NextForecast]_vars

(***************************************************************************)
(* SpecCalendar: the forecast asked on every day of three years.           *)
(***************************************************************************)
InitCalendar == InitAt({Noon(2023, 1, 1)})

NextCalendar ==
    \/ (PlusDays(now, 1).year \in Years /\ Tick(PlusDays(now, 1)))
    \/ get_spending_forecast

SpecCalendar == InitCalendar /\ [][NextCalendar]_vars

(***************************************************************************)
(* SpecTrend: a database opened at one of several instants, its writes,    *)
(* and the daily trend.                                                    *)
(***************************************************************************)
TrendClock ==
    {Noon(2024, 3, 1), Midnight(2024, 1, 1), Noon(2023, 3, 2)}

InitTrend == InitAt(TrendClock)

NextTrend ==
    \/ \E a \in Amounts, k \in (0 - MaxTrendDays)..0 :
           submit_add(a, "salary", "", k)
    \/ \E i \in Ids, a \in Amounts, k \in (0 - MaxTrendDays)..0 :
           submit_edit(i, a, "salary", "", k)
    \/ \E i \in Ids : delete_income(i)
    \/ \E d \in 0..MaxTrendDays : get_daily_trend(d)

SpecTrend == InitTrend /\ [][NextTrend]_vars

(***************************************************************************)
(* SpecWindow: a database opened around a change of year, its writes, and  *)
(* the yearly and trailing totals.                                         *)
(***************************************************************************)
WindowClock ==
    {Noon(2023, 12, 31), Midnight(2024, 1, 1), Noon(2024, 1, 1)}

InitWindow == InitAt(WindowClock)

NextWindow ==
    \/ \E a \in Amounts, k \in {-2, -1, 0, 1} : submit_add(a, "salary", "", k)
    \/ \E i \in Ids, a \in Amounts, k \in {-2, -1, 0, 1} :
           submit_edit(i, a, "salary", "", k)
    \/ \E i \in Ids : delete_income(i)
    \/ \E y \in {None, Some(2023), Some(2024)} : get_yearly_income(y)
    \/ \E d \in {1, 2} : get_monthly_income(d)

SpecWindow == InitWindow /\ [][NextWindow]_vars

(***************************************************************************)
(* SpecCategory: records of two categories and the category distribution   *)
(* over the whole store and over windows that open or close on 1 March.    *)
(***************************************************************************)
CategoryClock == {Noon(2024, 3, 1)}

WindowBounds == {None, Some(isoformat(Midnight(2024, 3, 1)))}

InitCategory == InitAt(CategoryClock)

NextCategory ==
    \/ \E a \in Amounts, c \in Categories, k \in {-1, 0} : submit_add(a, c, "", k)
    \/ \E i \in Ids, a \in Amounts, c \in Categories, k \in {-1, 0} :
           submit_edit(i, a, c, "", k)
    \/ \E i \in Ids : delete_income(i)
    \/ \E s \in WindowBounds, e \in WindowBounds : get_category_distribution(s, e)

SpecCategory == InitCategory /\ [][NextCategory]_vars

(***************************************************************************)
(* SpecRecord: records constructed from amounts of either sign, next to    *)
(* the form's own additions.                                               *)
(***************************************************************************)
RecordAmounts == -3 .. 3

InitRecord == InitAt({Noon(2024, 3, 1)})

NextRecord ==
    \/ \E a \in RecordAmounts, c \in Categories, d \in Descriptions, k \in {-1, 0} :
           new_record(a, c, d, k)
    \/ \E a \in Amounts, k \in {-1, 0} : submit_add(a, "salary", "", k)

SpecRecord == InitRecord /\ [][NextRecord]_vars

(***************************************************************************)
(* SpecCrud: records added by the form, edited, deleted and fetched by id  *)
(* while time passes.  The form adds <<9, "salary", "", today>>; an edit    *)
(* writes one of EditValues.                                               *)
(***************************************************************************)
CrudClock == {Noon(2024, 2, 29), Noon(2024, 3, 1)}

EditValues ==
    {<<10, "bonus", "memo", -1>>, <<10, "salary", "", 0>>, <<9, "salary", "", 0>>}

InitCrud == InitAt(CrudClock)

NextCrud ==
    \/ submit_add(9, "salary", "", 0)
    \/ \E i \in Ids, e \in EditValues : submit_edit(i, e[1], e[2], e[3], e[4])
    \/ \E e \in EditValues :
           update_income([id |-> None, amount |-> e[1], category |-> e[2],
                          description |-> e[3], date |-> FormDate(PickedDate(e[4]))])
    \/ \E i \in Ids : delete_income(i)
    \/ \E i \in Ids : get_income_by_id(i)
    \/ \E c \in CrudClock : Tick(c)

SpecCrud == InitCrud /\ [][NextCrud]_vars

(***************************************************************************)
(* SpecFailure: the store is lost and found again between the calls of the *)
(* form and of the dashboard.                                              *)
(***************************************************************************)
InitFailure == InitAt({Noon(2024, 3, 1)})

Aggregations ==
    {"get_total_income", "get_yearly_income", "get_monthly_income",
     "get_daily_average", "get_daily_trend", "get_category_distribution",
     "get_spending_forecast"}

NextFailure ==
    \/ \E a \in Amounts, k \in {-1, 0} : submit_add(a, "salary", "", k)
    \/ \E i \in Ids : delete_income(i)
    \/ set_monthly_budget(10)
    \/ get_total_income
    \/ get_yearly_income(None)
    \/ get_monthly_income(30)
    \/ get_daily_average
    \/ get_daily_trend(1)
    \/ get_category_distribution(None, None)
    \/ get_spending_forecast
    \/ lose_store
    \/ restore_store

SpecFailure == InitFailure /\ [][NextFailure]_vars

(***************************************************************************)
(* SpecDegenerate: the dashboard's calls on a store that is empty or holds *)
(* little, on the first day of a month and the day before, with no budget, *)
(* a budget of 0 and a budget of 10.                                       *)
(***************************************************************************)
DegenerateClock == {Noon(2024, 2, 29), Midnight(2024, 3, 1), Noon(2024, 3, 1)}

InitDegenerate == InitAt(DegenerateClock)

NextDegenerate ==
    \/ \E a \in Amounts, k \in {-1, 0} : submit_add(a, "salary", "", k)
    \/ \E i \in Ids : delete_income(i)
    \/ \E b \in {0, 10} : set_monthly_budget(b)
    \/ get_total_income
    \/ get_yearly_income(None)
    \/ get_monthly_income(30)
    \/ get_daily_average
    \/ get_daily_trend(1)
    \/ get_category_distribution(None, None)
    \/ get_spending_forecast

SpecDegenerate == InitDegenerate /\ [][NextDegenerate]_vars

(***************************************************************************)
(* SpecSettings: the budget box and the automatic backup write settings    *)
(* while time passes; settings are read back with and without a default.   *)
(***************************************************************************)
SettingsClock == {Noon(2024, 2, 29), Midnight(2024, 3, 1), Noon(2024, 3, 1)}

SettingKeys == {"monthly_budget", "last_backup_time"}

InitSettings == InitAt(SettingsClock)

NextSettings ==
    \/ \E b \in Budgets : set_monthly_budget(b)
    \/ \E b \in Budgets : set_setting("monthly_budget", PyFloat(b))
    \/ on_auto_backup_finished
    \/ \E k \in SettingKeys, d \in {None, Some(<<Digit(0)>>)} : get_setting(k, d)
    \/ \E c \in SettingsClock : Tick(c)

SpecSettings == InitSettings /\ [][NextSettings]_vars

(***************************************************************************)
(* SpecBudget: the budget is saved from the budget box, or the key is      *)
(* written with a text that is no number, and read back.                   *)
(***************************************************************************)
\* "abc", "" and "1.2.3": float() raises ValueError on each
BadBudgetTexts == {<<97, 98, 99>>, <<>>, <<49, 46, 50, 46, 51>>}

InitBudget == InitAt({Noon(2024, 2, 29), Noon(2024, 3, 1)})

NextBudget ==
    \/ \E b \in Budgets : set_monthly_budget(b)
    \/ \E t \in BadBudgetTexts : set_setting("monthly_budget", PyStr(t))
    \/ on_auto_backup_finished
    \/ \E a \in Amounts : submit_add(a, "salary", "", 0)
    \/ get_monthly_budget
    \/ get_spending_forecast

SpecBudget == InitBudget /\ [][NextBudget]_vars

(***************************************************************************)
(* SpecStatistics: the three calls from which the dashboard fills its      *)
(* cards, on records of today and of forty days ago.                       *)
(***************************************************************************)
InitStatistics == InitAt({Noon(2024, 3, 1), Noon(2024, 1, 20)})

NextStatistics ==
    \/ \E a \in Amounts, k \in {-40, 0} : submit_add(a, "salary", "", k)
    \/ \E i \in Ids : delete_income(i)
    \/ set_monthly_budget(10)
    \/ get_statistics
    \/ get_record_count
    \/ get_spending_forecast

SpecStatistics == InitStatistics /\ [][NextStatistics]_vars

(***************************************************************************)
(* SpecRange: the record list and the category distribution asked for      *)
(* ranges between 29 February and 1 March, in either order of the bounds.  *)
(***************************************************************************)
RangeBounds ==
    {None, Some(FormDate(Noon(2024, 2, 29))), Some(FormDate(Noon(2024, 3, 1)))}

\* the bound of a range as the text get_category_distribution is given
BoundText(b) == IF b.some THEN Some(isoformat(b.v)) ELSE None

InitRange == InitAt({Noon(2024, 3, 1)})

NextRange ==
    \/ \E a \in Amounts, k \in {-1, 0} : submit_add(a, "salary", "", k)
    \/ \E i \in Ids : delete_income(i)
    \/ \E s \in RangeBounds, e \in RangeBounds : get_incomes(s, e, None, 1000, 0)
    \/ \E s \in RangeBounds, e \in RangeBounds :
           get_category_distribution(BoundText(s), BoundText(e))

SpecRange == InitRange /\ [][NextRange]_vars

(***************************************************************************)
(* SpecPages: the record list read page by page.  Time passes between two  *)
(* submissions of the form, so no two records share their created_at.      *)
(***************************************************************************)
PagesClock == {Noon(2024, 2, 29), Midnight(2024, 3, 1), Noon(2024, 3, 1)}

PageSizes == {1, 2}

InitPages == InitAt(PagesClock)

NextPages ==
    \/ /\ \A r \in records : r.created_at # isoformat(get_beijing_time)
       /\ \E k \in {-1, 0} : submit_add(9, "salary", "", k)
    \/ \E i \in Ids, k \in {-1, 0} : submit_edit(i, 10, "salary", "", k)
    \/ \E i \in Ids : delete_income(i)
    \/ \E l \in PageSizes, o \in 0..MaxSeq : get_incomes(None, None, None, l, o)
    \/ get_incomes(None, None, None, 1000, 0)
    \/ \E c \in PagesClock : Tick(c)

SpecPages == InitPages /\ [][NextPages]_vars

(***************************************************************************)
(* SpecConcurrent: the form writes through its own connection while an     *)
(* aggregate call of another caller is under way.                          *)
(***************************************************************************)
AggregateCalls ==
    {"get_daily_average", "get_spending_forecast", "get_statistics"}

InitConcurrent == InitAt({Noon(2024, 3, 2)})

NextConcurrent ==
    \/ \E k \in {-1, 0} : submit_add(10, "salary", "", k)
    \/ \E i \in Ids : delete_income(i)
    \/ \E op \in AggregateCalls : begin_call(op)
    \/ step_call

SpecConcurrent == InitConcurrent /\ [][NextConcurrent]_vars

(***************************************************************************)
(* SpecWorker: the three background tasks of the main window.              *)
(***************************************************************************)
InitWorker == InitAt({Noon(2024, 3, 1)})

NextWorker ==
    \/ \E t \in Tasks : start_worker(t)
    \/ \E t \in Tasks, outcome \in Outcomes : run_try(t, outcome)
    \/ \E t \in Tasks : run_except(t)
    \/ \E t \in Tasks : run_else(t)
    \/ \E t \in Tasks : run_finally(t)

SpecWorker == InitWorker /\ [][NextWorker]_vars

(***************************************************************************)
(* SpecStack: the pages of the main window, asked for by the side bar and  *)
(* the shortcuts while the form adds records.                              *)
(***************************************************************************)
InitStack == InitAt({Noon(2024, 3, 1)})

NextStack ==
    \/ \E i \in Pages : switch_page(i)
    \/ \E i \in Pages : on_animation_finished(i)
    \/ \E k \in {-1, 0} : submit_add(10, "salary", "", k)

SpecStack == InitStack /\ [][NextStack]_vars

(***************************************************************************)
(* SpecPure: every aggregation and forecast call between the writes of the *)
(* form and of the settings page, while the clock moves on.                *)
(***************************************************************************)
PureClock == {Noon(2024, 2, 29), Noon(2024, 3, 1)}

InitPure == InitAt(PureClock)

NextPure ==
    \/ \E k \in {-1, 0} : submit_add(10, "salary", "", k)
    \/ \E i \in Ids : delete_income(i)
    \/ set_monthly_budget(10)
    \/ get_total_income
    \/ \E y \in {None, Some(2023)} : get_yearly_income(y)
    \/ \E d \in {1, 30} : get_monthly_income(d)
    \/ get_daily_average
    \/ get_daily_trend(1)
    \/ \E b \in WindowBounds : get_category_distribution(b, None)
    \/ get_statistics
    \/ get_spending_forecast
    \/ \E c \in PureClock : Tick(c)

SpecPure == InitPure /\ [][NextPure]_vars

(***************************************************************************)
(* SpecReassign: the Database API used by the form and by a caller that    *)
(* assigns to the amount of a record object before update_income.          *)
(***************************************************************************)
ReassignClock == {Noon(2024, 3, 1), Noon(2024, 3, 12)}

ReassignedAmounts == {-3, 5}

InitReassign == InitAt(ReassignClock)

NextReassign ==
    \/ \E k \in {-1, 0} : submit_add(10, "salary", "", k)
    \/ \E i \in Ids, a \in ReassignedAmounts : update_reassigned(i, a, 0)
    \/ \E i \in Ids : delete_income(i)
    \/ get_spending_forecast
    \/ \E c \in ReassignClock : Tick(c)

SpecReassign == InitReassign /\ [][NextReassign]_vars

(***************************************************************************)
(* Properties.                                                             *)
(***************************************************************************)
\* the length of a month by the calendar rule
MonthLength(y, m) ==
    CASE m \in {4, 6, 9, 11} -> 30
      [] m = 2 -> (IF (y % 4 = 0 /\ y % 100 # 0) \/ y % 400 = 0 THEN 29 ELSE 28)
      [] OTHER -> 31

IsForecast == ret.op = "get_spending_forecast"

BudgetIs(b) ==
    "monthly_budget" \in DOMAIN settings /\ settings["monthly_budget"] = StrFloat(b)

C2_StatusClassification ==
    \A b \in Budgets :
        (IsForecast /\ BudgetIs(b) /\ b > 0) =>
            LET pt == ret.val.predicted_total
                st == ret.val.status
            IN /\ st \in {"danger", "warning", "safe"}
               /\ (st = "danger") <=> (pt.n > b * pt.d)
               /\ (st = "warning") <=>
                      (10 * pt.n > 9 * b * pt.d /\ pt.n <= b * pt.d)

\* a forecast whose predicted_total is exactly the budget: "warning"
C2_Witness ==
    \E b \in Budgets :
        /\ IsForecast /\ BudgetIs(b) /\ b > 0
        /\ ret.val.predicted_total = R(b, 1)
        /\ ret.val.status = "warning"

C4_LinearExtrapolation ==
    IsForecast =>
        LET pt  == ret.val.predicted_total
            da  == ret.val.daily_average
            cms == ret.val.current_month_spending
            rem == ret.val.remaining_days
        IN /\ pt.n * da.d = pt.d * (cms * da.d + da.n * rem)
           /\ (now.day = MonthLength(now.year, now.month)) =>
                  (rem = 0 /\ pt = [n |-> cms, d |-> 1])

\* a forecast on the last day of a month, with spending and a positive rate
C4_Witness ==
    /\ IsForecast
    /\ now.day = MonthLength(now.year, now.month)
    /\ ret.val.current_month_spending > 0
    /\ ret.val.daily_average.n > 0

\* C5: total_days is the length of the current calendar month (December
\* included), passed_days is the day of the month, remaining_days is their
\* difference and lies in 0 .. total_days - 1; the forecast returns it.
C5_MonthDays ==
    LET fd == ForecastDays(now)
    IN /\ fd.total_days = MonthLength(now.year, now.month)
       /\ fd.passed_days = now.day
       /\ fd.remaining_days = fd.total_days - fd.passed_days
       /\ 0 <= fd.remaining_days /\ fd.remaining_days <= fd.total_days - 1
       /\ IsForecast => ret.val.remaining_days = MonthLength(now.year, now.month) - now.day

\* a forecast on 31 December
C5_Witness ==
    /\ IsForecast
    /\ now.month = 12 /\ now.day = 31
    /\ ret.val.remaining_days = 0

\* C6: current_month_spending is the sum of the amounts of exactly the records
\* whose date d satisfies month_start <= d <= now, both ends included.
C6_MonthToDateInclusive ==
    IsForecast =>
        LET month_start == Midnight(now.year, now.month, 1)
            InWindow(r) ==
                LET d == fromisoformat(r.date)
                IN DtLE(month_start, d) /\ DtLE(d, now)
        IN ret.val.current_month_spending = SumAmount({r \in records : InWindow(r)})

IsTrend == ret.op = "get_daily_trend"

\* the day number of a text YYYY-MM-DD
TextOrdinal(t) == ToOrdinal(Num4(t, 1), Num2(t, 6), Num2(t, 9))

\* the text is YYYY-MM-DD of a day that exists
IsCalendarDay(t) ==
    /\ Len(t) = 10
    /\ Num2(t, 6) \in 1..12
    /\ Num2(t, 9) \in 1..MonthLength(Num4(t, 1), Num2(t, 6))

\* C7: get_daily_trend(N) returns N + 1 dates and N + 1 amounts, position by
\* position, the dates being the consecutive calendar days from today - N
\* to today.
C7_TrendShape ==
    IsTrend =>
        LET N      == ret.days
            dates  == ret.val.dates
            values == ret.val.values
            today  == ToOrdinal(now.year, now.month, now.day)
        IN /\ Len(dates) = N + 1
           /\ Len(values) = N + 1
           /\ \A i \in 1..Len(dates) :
                  IsCalendarDay(dates[i]) /\ TextOrdinal(dates[i]) = today - N + (i - 1)
           /\ \A i \in 1..(Len(dates) - 1) :
                  TextOrdinal(dates[i + 1]) = TextOrdinal(dates[i]) + 1

\* a trend of two days or more, over a change of month, of a store with rows
C7_Witness ==
    /\ IsTrend
    /\ ret.days >= 2
    /\ records # {}
    /\ Len(ret.val.dates) >= 3
    /\ Num2(ret.val.dates[1], 6) # Num2(ret.val.dates[Len(ret.val.dates)], 6)

\* C8: the amount at each position of the trend is the sum of the amounts of
\* the records whose business date (the calendar day of their date) is the day
\* at that position, 0 for a day without records.
C8_TrendPerBusinessDay ==
    IsTrend =>
        \A i \in 1..Len(ret.val.dates) :
            ret.val.values[i] =
                SumAmount({r \in records :
                              strftime_ymd(fromisoformat(r.date)) = ret.val.dates[i]})

\* the calendar days that have a record
BusinessDays ==
    {<<d.year, d.month, d.day>> : d \in {fromisoformat(r.date) : r \in records}}

RECURSIVE SumFetched(_)
\* the sum of the amounts of the records fetched one by one by id
SumFetched(ids) ==
    IF ids = {} THEN 0
    ELSE LET i == CHOOSE x \in ids : TRUE
             f == IncomeById(i)
         IN (IF f.some THEN f.v.amount ELSE 0) + SumFetched(ids \ {i})

RECURSIVE SeqAmountSum(_)
SeqAmountSum(s) ==
    IF s = <<>> THEN 0 ELSE Head(s).amount + SeqAmountSum(Tail(s))

\* C10: get_total_income is 0 on an empty store and, after any adds, updates
\* and deletes, the sum of the amounts of the records as fetched one by one;
\* the records get_incomes returns add up to the same sum.
C10_TotalIsSumOfRecords ==
    /\ ret.op = "get_total_income" =>
           /\ ret.val = SumFetched(1..seq)
           /\ records = {} => ret.val = 0
    /\ ret.op = "get_incomes" =>
           /\ SeqAmountSum(ret.val) = SumFetched(1..seq)
           /\ Len(ret.val) = Cardinality(records)

\* the total of a store from which a record was deleted and that still holds
\* one
C10_Witness ==
    /\ ret.op = "get_total_income"
    /\ seq = 2
    /\ Cardinality(records) = 1
    /\ ret.val > 0

\* the calendar year of a record's date
BusinessYear(r) == fromisoformat(r.date).year

\* C11: get_yearly_income(Y) is the sum of the amounts of exactly the records
\* dated in year Y (1 January 00:00:00 to 31 December 23:59:59): a record
\* counts in the total of its own year and of no other.
C11_YearlyIncome ==
    ret.op = "get_yearly_income" =>
        LET y == IF ret.year.some THEN ret.year.v ELSE now.year
        IN ret.val = SumFetched({i \in 1..seq :
                         IncomeById(i).some /\ IncomeById(i).v.date.year = y})

\* the total of 2024 of a store with a record of 31 December 2023 and one of
\* 1 January 2024
C11_Witness ==
    /\ ret.op = "get_yearly_income"
    /\ ret.year = Some(2024)
    /\ \E r \in records :
           /\ BusinessYear(r) = 2023
           /\ fromisoformat(r.date).month = 12 /\ fromisoformat(r.date).day = 31
    /\ \E r \in records :
           /\ BusinessYear(r) = 2024
           /\ fromisoformat(r.date).month = 1 /\ fromisoformat(r.date).day = 1
           /\ ret.val = r.amount

\* C12: get_monthly_income(days) is the sum of the amounts of exactly the
\* records dated on the calendar days from the day of now - days to the day
\* of now, both boundary days included.
C12_TrailingWindow ==
    ret.op = "get_monthly_income" =>
        LET today == ToOrdinal(now.year, now.month, now.day)
            DayOf(r) == LET d == fromisoformat(r.date)
                        IN ToOrdinal(d.year, d.month, d.day)
        IN ret.val = SumAmount({r \in records :
                                   today - ret.days <= DayOf(r) /\ DayOf(r) <= today})

\* the ids of the fetched records of category c whose stored date lies in the
\* window of a distribution
IdsInWindow(c, start_date, end_date) ==
    {i \in 1..seq :
        /\ IncomeById(i).some
        /\ IncomeById(i).v.category = c
        /\ start_date.some => TextLE(start_date.v, isoformat(IncomeById(i).v.date))
        /\ end_date.some => TextLE(isoformat(IncomeById(i).v.date), end_date.v)}

\* C13: the keys of get_category_distribution(start, end) are exactly the
\* categories with at least one record in the window (a category with none is
\* absent, never present with 0) and each value is the sum of the amounts of
\* that category's records in the window.
C13_CategoryDistribution ==
    ret.op = "get_category_distribution" =>
        /\ DOMAIN ret.val =
               {c \in Categories : IdsInWindow(c, ret.start_date, ret.end_date) # {}}
        /\ \A c \in DOMAIN ret.val :
               ret.val[c] = SumFetched(IdsInWindow(c, ret.start_date, ret.end_date))

\* a window holding a record of one category while the only record of the
\* other category lies outside it
C13_Witness ==
    /\ ret.op = "get_category_distribution"
    /\ ret.start_date # None
    /\ ret.end_date = None
    /\ DOMAIN ret.val = {"salary"}
    /\ ret.val["salary"] = 10
    /\ \E r \in records : r.category = "bonus"

\* C14: constructing an IncomeRecord with amount < 0 always fails with a
\* validation error that reaches the caller, and with amount >= 0 it always
\* succeeds and yields the record of that amount.
C14_AmountValidation ==
    ret.op = "IncomeRecord" =>
        IF ret.amount < 0
        THEN ret.val = [ok |-> FALSE, exc |-> "ValueError"]
        ELSE ret.val.ok /\ ret.val.v.amount = ret.amount

\* a construction with a negative amount, refused, made on a store that
\* already holds a record
C14_Witness ==
    /\ ret.op = "IncomeRecord"
    /\ ret.amount = -1
    /\ ~ret.val.ok
    /\ records # {}

\* C15: after a record is added and then updated with a new amount, category,
\* description and date, get_income_by_id returns the updated values under the
\* same id and with the created_at the record was added with.
C15_UpdateRoundTrip ==
    [][\A i \in Ids, e \in EditValues :
          (/\ ret'.op = "update_income"
           /\ submit_edit(i, e[1], e[2], e[3], e[4])
           /\ ret'.val) =>
              LET before == IncomeById(i)
                  after == IncomeById(i)'
              IN /\ before.some /\ after.some
                 /\ after.v.id = i
                 /\ after.v.amount = e[1]
                 /\ after.v.category = e[2]
                 /\ after.v.description = e[3]
                 /\ after.v.date = FormDate(PickedDate(e[4]))
                 /\ after.v.created_at = before.v.created_at]_vars

\* a successful update, on a later day, of a record the form had added as
\* <<9, "salary", "", its day>>: all four fields now differ
C15_Witness ==
    /\ ret.op = "update_income" /\ ret.val
    /\ \E r \in records :
           /\ r.amount = 10 /\ r.category = "bonus" /\ r.description = "memo"
           /\ fromisoformat(r.created_at).day = 29
           /\ fromisoformat(r.date).day = 28
           /\ now.day = 1

\* C16: update_income on a record whose id is None or is not in the store, and
\* delete_income on an id not in the store, return False and leave every
\* record and the record count as they were; get_income_by_id on an id not in
\* the store returns None.
C16_MissingIds ==
    [][/\ \A i \in Ids :
            (/\ ret'.op = "delete_income"
             /\ ~IncomeById(i).some
             /\ delete_income(i)) =>
                (/\ ret'.val = FALSE
                 /\ records' = records
                 /\ Cardinality(records') = Cardinality(records))
       /\ \A i \in Ids, e \in EditValues :
            (/\ ret'.op = "update_income"
             /\ ~IncomeById(i).some
             /\ submit_edit(i, e[1], e[2], e[3], e[4])) =>
                (/\ ret'.val = FALSE
                 /\ records' = records
                 /\ Cardinality(records') = Cardinality(records))
       /\ \A e \in EditValues :
            (/\ ret'.op = "update_income"
             /\ update_income([id |-> None, amount |-> e[1], category |-> e[2],
                               description |-> e[3],
                               date |-> FormDate(PickedDate(e[4]))])) =>
                (/\ ret'.val = FALSE
                 /\ records' = records)
       /\ \A i \in Ids :
            (/\ ret'.op = "get_income_by_id"
             /\ ~(\E r \in records : r.id = i)
             /\ get_income_by_id(i)) =>
                ret'.val = None]_vars

\* a delete that found nothing, on a store that holds another record
C16_Witness ==
    /\ ret.op = "delete_income"
    /\ ret.val = FALSE
    /\ records # {}

\* C17: every id add_income returns is greater than every id issued before,
\* the ids of deleted records included, so none is ever reused; an update
\* leaves the set of ids and the number of records as they were.
C17_IdsNeverReused ==
    [][/\ \A r \in records : r.id <= seq
       /\ seq' >= seq
       /\ \A r \in records' :
            (r.id \notin {x.id : x \in records}) =>
                (/\ r.id > seq
                 /\ seq' = r.id
                 /\ ret'.op = "add_income"
                 /\ ret'.val = r.id)
       /\ ret'.op = "update_income" =>
            (/\ {r.id : r \in records'} = {r.id : r \in records}
             /\ Cardinality(records') = Cardinality(records))]_vars

\* the second record is added after the first was deleted and gets id 2
C17_Witness ==
    /\ ret.op = "add_income"
    /\ ret.val = 2
    /\ {r.id : r \in records} = {2}

\* C18: while the store cannot be reached or its statements fail, every
\* aggregation and forecast operation gives its caller the failure: none
\* returns 0 or any other value.
C18_FailurePropagates ==
    /\ ~reachable => ret.op \in {"none", "raise"}
    /\ ret.op = "raise" => ~reachable /\ ret.exc = "sqlite3.Error"
    /\ \A op \in Aggregations : ret.op = op => reachable

\* the forecast is asked of a store that holds records and a budget and
\* cannot be reached
C18_Witness ==
    /\ ~reachable
    /\ ret.op = "raise"
    /\ ret.in = "get_spending_forecast"
    /\ records # {}
    /\ "monthly_budget" \in DOMAIN settings

\* C19: no aggregation or forecast operation raises or divides by zero in a
\* degenerate case: on an empty store the totals and the daily average are 0
\* (and so is the forecast), on the first day of a month the forecast's daily
\* rate is the historical one, with no division by the elapsed days, and with
\* a budget of 0 or none the status is "safe".
C19_DegenerateCases ==
    /\ ret.op # "raise"
    /\ ret.op \in {"get_total_income", "get_yearly_income", "get_monthly_income"} =>
           (records = {} => ret.val = 0)
    /\ ret.op = "get_daily_average" =>
           /\ ret.val.d > 0
           /\ records = {} => ret.val = [n |-> 0, d |-> 1]
    /\ ret.op = "get_category_distribution" =>
           (records = {} => DOMAIN ret.val = {})
    /\ ret.op = "get_daily_trend" =>
           (records = {} => \A i \in 1..Len(ret.val.values) : ret.val.values[i] = 0)
    /\ ret.op = "get_spending_forecast" =>
           /\ ret.val.predicted_total.d > 0
           /\ ret.val.daily_average.d > 0
           /\ records = {} =>
                  /\ ret.val.predicted_total = [n |-> 0, d |-> 1]
                  /\ ret.val.daily_average = [n |-> 0, d |-> 1]
                  /\ ret.val.current_month_spending = 0
                  /\ ret.val.status = "safe"
           /\ now.day = 1 =>
                  ret.val.daily_average.n * Cardinality({SqlDate(r.date) : r \in records})
                      = ret.val.daily_average.d * SumFetched(1..seq)
           /\ ("monthly_budget" \notin DOMAIN settings \/ BudgetIs(0)) =>
                  ret.val.status = "safe"

\* the forecast of an empty store on the first day of a month with a budget
\* of 0
C19_Witness ==
    /\ ret.op = "get_spending_forecast"
    /\ records = {}
    /\ now.day = 1
    /\ BudgetIs(0)
    /\ ret.val.status = "safe"
    /\ ret.val.predicted_total = [n |-> 0, d |-> 1]

\* the string form of the budgets, written out
BudgetText(b) ==
    CASE b = 0 -> <<48, 46, 48>>
      [] b = 10 -> <<49, 48, 46, 48>>
      [] b = 20 -> <<50, 48, 46, 48>>

\* C20: get_setting(key, default) returns default while key was never set;
\* once set_setting(key, v) has returned True, get_setting(key, ...) returns the
\* string form of the v set last, and the values of the other keys are as
\* they were.
C20_SettingsRoundTrip ==
    [][/\ ret'.op = "get_setting" =>
            ret'.val = (IF ret'.key \in DOMAIN settings
                        THEN Some(settings[ret'.key]) ELSE ret'.default)
       /\ \A b \in Budgets :
            (/\ ret'.op = "set_setting"
             /\ \/ set_monthly_budget(b)
                \/ set_setting("monthly_budget", PyFloat(b))) =>
                (/\ ret'.val = TRUE
                 /\ GetSetting("monthly_budget", None)' = Some(BudgetText(b))
                 /\ GetSetting("last_backup_time", None)'
                        = GetSetting("last_backup_time", None))
       /\ (ret'.op = "set_setting" /\ on_auto_backup_finished) =>
                (/\ ret'.val = TRUE
                 /\ GetSetting("last_backup_time", None)'
                        = Some(strftime_ymd_hms(now))
                 /\ GetSetting("monthly_budget", None)'
                        = GetSetting("monthly_budget", None))]_vars

\* a set_setting has returned True in a store that holds both the budget
\* "20.0" and the time of a backup
C20_Witness ==
    /\ ret.op = "set_setting"
    /\ ret.val = TRUE
    /\ "last_backup_time" \in DOMAIN settings
    /\ "monthly_budget" \in DOMAIN settings
    /\ settings["monthly_budget"] = <<50, 48, 46, 48>>

\* C21: get_monthly_budget never raises: it returns 0.0 when the key
\* monthly_budget is absent or holds a text that is no number, and otherwise
\* the number set_monthly_budget stored last.
C21_BudgetFallback ==
    ret.op = "get_monthly_budget" =>
        /\ ret.val.d > 0
        /\ "monthly_budget" \notin DOMAIN settings => ret.val = [n |-> 0, d |-> 1]
        /\ "monthly_budget" \in DOMAIN settings =>
               /\ settings["monthly_budget"] \in BadBudgetTexts =>
                      ret.val = [n |-> 0, d |-> 1]
               /\ \A b \in Budgets :
                      settings["monthly_budget"] = BudgetText(b) =>
                          ret.val = [n |-> b, d |-> 1]
               /\ \/ settings["monthly_budget"] \in BadBudgetTexts
                  \/ \E b \in Budgets : settings["monthly_budget"] = BudgetText(b)

\* the budget is read while the key holds the text "abc"
C21_Witness ==
    /\ ret.op = "get_monthly_budget"
    /\ "monthly_budget" \in DOMAIN settings
    /\ settings["monthly_budget"] = <<97, 98, 99>>
    /\ ret.val = [n |-> 0, d |-> 1]

ForecastFields ==
    {"predicted_total", "remaining_days", "daily_average", "status",
     "current_month_spending"}

\* C22 as stated: the structure get_statistics returns contains total_income,
\* yearly_income, monthly_income, daily_average, the fields of the forecast
\* and record_count.
C22_StatisticsPayload ==
    ret.op = "get_statistics" =>
        ({"total_income", "yearly_income", "monthly_income", "daily_average",
          "record_count"} \cup ForecastFields) \subseteq DOMAIN ret.val

\* C22 amended: get_statistics returns exactly total_income, yearly_income (the
\* year of the clock), monthly_income (trailing 30 days) and daily_average;
\* the fields of the forecast are those of get_spending_forecast and the
\* record count is what get_record_count returns, each a call of its own.
C22_StatisticsFields ==
    /\ ret.op = "get_statistics" =>
           /\ DOMAIN ret.val =
                  {"total_income", "yearly_income", "monthly_income", "daily_average"}
           /\ ret.val.total_income = SumFetched(1..seq)
           /\ ret.val.yearly_income =
                  SumFetched({i \in 1..seq : IncomeById(i).some
                                  /\ IncomeById(i).v.date.year = now.year})
           /\ ret.val.monthly_income = MonthlyIncome(records, now, 30)
           /\ ret.val.daily_average = DailyAverage(records)
    /\ ret.op = "get_spending_forecast" => DOMAIN ret.val = ForecastFields
    /\ ret.op = "get_record_count" =>
           ret.val = Cardinality({i \in 1..seq : IncomeById(i).some})

\* the statistics of a store with a record of today and one of forty days
\* ago, in the same year: the yearly total has both, the trailing one only
\* today's
C22_Witness ==
    /\ ret.op = "get_statistics"
    /\ now.month = 3
    /\ Cardinality(records) = 2
    /\ ret.val.yearly_income = ret.val.total_income
    /\ ret.val.monthly_income > 0
    /\ ret.val.monthly_income < ret.val.yearly_income

\* C23: a date-range query whose start is later than its end yields an empty
\* result and no error, whatever the store holds: get_incomes returns an
\* empty list and get_category_distribution an empty mapping.
C23_InvertedRange ==
    /\ ret.op # "raise"
    /\ (/\ ret.op = "get_incomes"
        /\ ret.start_date.some /\ ret.end_date.some
        /\ ~DtLE(ret.start_date.v, ret.end_date.v)) => ret.val = <<>>
    /\ (/\ ret.op = "get_category_distribution"
        /\ ret.start_date.some /\ ret.end_date.some
        /\ ~DtLE(fromisoformat(ret.start_date.v), fromisoformat(ret.end_date.v))) =>
           DOMAIN ret.val = {}

\* the list from 1 March back to 29 February of a store that holds a record
\* of each of the two days
C23_Witness ==
    /\ ret.op = "get_incomes"
    /\ ret.start_date = Some(FormDate(Noon(2024, 3, 1)))
    /\ ret.end_date = Some(FormDate(Noon(2024, 2, 29)))
    /\ ret.val = <<>>
    /\ {fromisoformat(r.date).day : r \in records} = {29, 1}

\* record x comes before record r in the list: its date is later, or the dates
\* are equal and it was created later
ComesBefore(x, r) ==
    LET xd == fromisoformat(x.date)
        rd == fromisoformat(r.date)
    IN \/ ~DtLE(xd, rd)
       \/ /\ xd = rd
          /\ ~DtLE(fromisoformat(x.created_at), fromisoformat(r.created_at))

\* the position of the record of id i in the whole ordered list
Position(i) ==
    LET r == CHOOSE x \in records : x.id = i
    IN 1 + Cardinality({x \in records : ComesBefore(x, r)})

PageIds(page) == {page[i].id : i \in 1..Len(page)}

\* C24: get_incomes returns the matching records by date descending and, for
\* equal dates, by created_at descending; with limit L and offset O it returns
\* exactly the records at positions O .. O+L-1 of that order, so the
\* successive pages of an unchanged store are disjoint and together hold
\* every matching record once.
C24_OrderedPages ==
    /\ (ret.op = "get_incomes" /\ ret.start_date = None /\ ret.end_date = None) =>
           LET n == Cardinality(records)
               first == IF ret.offset < n THEN ret.offset ELSE n
               last == IF ret.offset + ret.limit < n THEN ret.offset + ret.limit ELSE n
           IN /\ Len(ret.val) = last - first
              /\ \A i \in 1..Len(ret.val) :
                     /\ \E r \in records : r.id = ret.val[i].id
                     /\ Position(ret.val[i].id) = ret.offset + i
    /\ \A l \in PageSizes :
           /\ \A k1, k2 \in 0..MaxSeq :
                  k1 # k2 =>
                      \A p \in Incomes(None, None, None, l, k1 * l),
                         q \in Incomes(None, None, None, l, k2 * l) :
                          PageIds(p) \cap PageIds(q) = {}
           /\ \A r \in records :
                  \E k \in 0..MaxSeq :
                      \A p \in Incomes(None, None, None, l, k * l) : r.id \in PageIds(p)

\* the second page of size 1 of a store of two records of the same date: it
\* holds the record created first
C24_Witness ==
    /\ ret.op = "get_incomes"
    /\ ret.limit = 1 /\ ret.offset = 1
    /\ Cardinality(records) = 2
    /\ Cardinality({r.date : r \in records}) = 1
    /\ Len(ret.val) = 1
    /\ \A r \in records :
           r.id # ret.val[1].id =>
               ~DtLE(fromisoformat(r.created_at), ret.val[1].created_at)

\* what an aggregate call returns when every statement of it reads the
\* store S
SnapshotValue(op, S) ==
    CASE op = "get_daily_average" -> DailyAverage(S)
      [] op = "get_spending_forecast" -> SpendingForecast(S, now)
      [] op = "get_statistics" -> Statistics(S, now)

\* C25: the value an aggregate call returns while the form commits is the
\* value of one of the contents the store had during the call
C25_ConsistentSnapshot ==
    (ret.op \in AggregateCalls /\ "seen" \in DOMAIN ret)
        => \E S \in ret.seen : ret.val = SnapshotValue(ret.op, S)

\* C25 for the calls during which nothing was committed
C25_QuietCall ==
    (ret.op \in AggregateCalls /\ "seen" \in DOMAIN ret
        /\ Cardinality(ret.seen) = 1)
        => \E S \in ret.seen : ret.val = SnapshotValue(ret.op, S)

\* the signals a finished run has emitted, by what its function did
SignalsOf(outcome) ==
    IF outcome.raised THEN <<"error", "finished">> ELSE <<"result", "finished">>

\* the list a is the beginning of the list b
IsPrefix(a, b) == Len(a) <= Len(b) /\ \A i \in 1..Len(a) : a[i] = b[i]

\* C26: a Worker run emits result when its function returned and error when
\* it raised, never both and never twice, and then finished once, after it
C26_FireOnce ==
    \A t \in Tasks :
        LET w == workers[t]
        IN /\ w.pc \in {"finally", "done"} =>
                  IsPrefix(w.emitted, SignalsOf(w.outcome))
           /\ w.pc \in {"none", "queued", "except", "else"} => w.emitted = <<>>
           /\ w.pc = "finally" => Len(w.emitted) = 1
           /\ w.pc = "done" => w.emitted = SignalsOf(w.outcome)

C26_Witness ==
    /\ workers["export"].pc = "done" /\ workers["export"].outcome.raised
    /\ workers["export"].emitted = <<"error", "finished">>
    /\ workers["backup"].pc = "done" /\ ~workers["backup"].outcome.raised
    /\ workers["backup"].emitted = <<"result", "finished">>

\* C30: once no animation runs, the page shown is the page the last
\* switch_page asked for
C30_PageShown ==
    (ret.op = "switch_page" /\ ~stack.m_active)
        => stack.currentIndex = ret.index

\* C30, the parts about the animation alone: at most one animation runs, and
\* m_active is true exactly while one does
C30_OneAnimation ==
    /\ Cardinality(stack.anims) <= 1
    /\ stack.m_active <=> stack.anims # {}

\* C30, the parts about one step: the widget changes only when a request for
\* another page than the current one arrives while no animation runs, or when
\* the animation ends, which shows its page and clears m_active
C30_Steps ==
    [][/\ (stack' # stack /\ stack'.m_active)
            => /\ ~stack.m_active
               /\ ret'.op = "switch_page"
               /\ ret'.index # stack.currentIndex
               /\ stack'.anims = {ret'.index}
               /\ stack'.currentIndex = stack.currentIndex
       /\ (stack' # stack /\ ~stack'.m_active)
            => /\ stack.m_active
               /\ stack.anims = {stack'.currentIndex}
               /\ stack'.anims = {}]_vars

\* the aggregation and forecast operations
PureOperations == Aggregations \cup {"get_statistics"}

\* C27: an aggregation or forecast call leaves the records and the settings
\* as they are, and a second call with the same arguments at the same instant
\* returns what the first returned
C27_NoSideEffects ==
    [][ret'.op \in PureOperations
        => /\ records' = records
           /\ settings' = settings
           /\ seq' = seq
           /\ (/\ ret.op = ret'.op
               /\ [ret EXCEPT !.val = 0] = [ret' EXCEPT !.val = 0]
               /\ now' = now) => ret'.val = ret.val]_vars

C27_Witness ==
    /\ ret.op = "get_spending_forecast"
    /\ ret.val.current_month_spending = 20
    /\ "monthly_budget" \in DOMAIN settings

\* C28: every stored record has amount >= 0, whatever add_income,
\* update_income and delete_income calls were made
C28_NonNegativeAmounts == \A r \in records : r.amount >= 0

RLe(a, b) == ~RLt(b, a)

\* c lies between a and b, ends included
RBetween(c, a, b) == (RLe(a, c) /\ RLe(c, b)) \/ (RLe(b, c) /\ RLe(c, a))

\* the bounds of C29 on the forecast f made from the rows at the clock n
ForecastBounds(f, rows, n) ==
    /\ 0 <= f.current_month_spending
    /\ RLe(R(f.current_month_spending, 1), f.predicted_total)
    /\ RLe(R(0, 1), f.daily_average)
    /\ RBetween(f.daily_average, R(f.current_month_spending, n.day),
                DailyAverage(rows))

\* C29: the forecast of every store the three writes can produce has
\* 0 <= current_month_spending <= predicted_total and a daily_average >= 0
\* between the current-month daily rate and the historical daily average
C29_ForecastBounds ==
    ret.op = "get_spending_forecast" => ForecastBounds(ret.val, records, now)

\* C29 for the stores in which no amount is negative
C29_NonNegativeStores ==
    (ret.op = "get_spending_forecast" /\ C28_NonNegativeAmounts)
        => ForecastBounds(ret.val, records, now)

====
